---------------------------- MODULE Spec2Model ----------------------------
(***************************************************************************)
(* The "cones" scene of amethyst-playground (projects/cones/src/main.rs):  *)
(* Example::on_start populates the world (a grid of cones, two point       *)
(* lights, one camera); MoveLightsSystem and MoveCameraSystem then run     *)
(* once per frame and write the Transform of the entities they join over.  *)
(*                                                                         *)
(* f32 values are modelled exactly: a finite f32 is the pair <<m, e>> that *)
(* stands for m * 2^e, in canonical form (m odd, or <<0, 0>> for zero; the *)
(* sign of a zero is dropped, as f32 equality drops it).  Products are     *)
(* rounded to 24 significant bits, ties to even, as the hardware does.     *)
(***************************************************************************)
EXTENDS Integers, Sequences, FiniteSets, TLC

VARIABLES
    state,          \* "Created" before Example::on_start has run, "Running" after
    n,              \* the grid size (main.rs:79)
    entities,       \* the entities of the world: entity k is the k-th one created
    transforms,     \* WriteStorage<Transform>, a dense storage (see Get and Put)
    meshes,         \* Handle<Mesh> storage, a dense storage
    materials,      \* Handle<Material> storage, a dense storage
    lights,         \* ReadStorage<Light>
    light_colors,   \* ReadStorage<LightColor>
    cameras,        \* ReadStorage<Camera>
    time,           \* the Time resource: index of the current clock sample, 0 before the first frame
    ran,            \* the systems that have completed their run in the current frame
    visited,        \* per system, the entities its join has already visited in the current frame
    frame_start     \* the Transform storage as it was when the current frame began

vars == <<state, n, entities, transforms, meshes, materials, lights,
          light_colors, cameras, time, ran, visited, frame_start>>

-----------------------------------------------------------------------------
(* Bounds of the model. *)

\* Grid sizes 0..MaxN are explored beside the program's own n.
MaxN == 3
\* The clock samples 1..NumTimes of TimeSamples are the frame times explored.
NumTimes == 6
\* Grid sizes 0..MaxSetupN are explored by the specification of the setup alone.
MaxSetupN == 60

\* let n = 201;
N == 201

-----------------------------------------------------------------------------
(* f32 arithmetic. *)

RECURSIVE Pow2(_)
Pow2(k) == IF k = 0 THEN 1 ELSE 2 * Pow2(k - 1)

Abs(m) == IF m < 0 THEN -m ELSE m

\* Canonical form of m * 2^e.
RECURSIVE Norm(_, _)
Norm(m, e) ==
    IF m = 0 THEN <<0, 0>>
    ELSE IF m % 2 = 0 THEN Norm(m \div 2, e + 1)
    ELSE <<m, e>>

\* Number of bits by which the magnitude a exceeds 24 significant bits.
RECURSIVE Excess(_)
Excess(a) == IF a < 16777216 THEN 0 ELSE 1 + Excess(a \div 2)

\* m * 2^e rounded to the nearest f32 (24 significant bits), ties to even.
RoundF32(m, e) ==
    LET a    == Abs(m)
        k    == Excess(a)
        q    == a \div Pow2(k)
        r    == a % Pow2(k)
        half == IF k = 0 THEN 0 ELSE Pow2(k - 1)
        up   == k > 0 /\ (r > half \/ (r = half /\ q % 2 = 1))
        q2   == IF up THEN q + 1 ELSE q
    IN  Norm(IF m < 0 THEN -q2 ELSE q2, e + k)

\* i32 as f32, for the magnitudes the program casts.
I32ToF32(i) == RoundF32(i, 0)

\* The f32 product a * b.
FMul(a, b) == RoundF32(a[1] * b[1], a[2] + b[2])

\* The f32 negation -a.
FNeg(a) == <<-a[1], a[2]>>

\* f32 literals of main.rs.
F(i) == I32ToF32(i)
F2_5 == <<5, -1>>

\* f64 as f32: a clock sample <<hi, lo, e>> stands for the f64
\* (hi * 2^29 + lo) * 2^e, its 53-bit significand split in two.
F64ToF32(t) ==
    LET hi == t[1]
        lo == t[2]
        up == lo > 268435456 \/ (lo = 268435456 /\ hi % 2 = 1)
    IN  Norm(IF up THEN hi + 1 ELSE hi, t[3] + 29)


\* f32::sin and f32::cos, correctly rounded, at the arguments the explored
\* clock samples produce (seconds and seconds * 10.0).
Sin(x) ==
    CASE x = <<0, 0>>             -> <<0, 0>>             \* sin(0.0)
      [] x = <<8947849, -29>>     -> <<8947435, -29>>     \* sin(0.01666666753590107)
      [] x = <<11184811, -26>>    -> <<11133101, -26>>    \* sin(0.1666666716337204)
      [] x = <<1, -1>>            -> <<4021713, -23>>     \* sin(0.5)
      [] x = <<1, 0>>             -> <<3529385, -22>>     \* sin(1.0)
      [] x = <<13176795, -23>>    -> <<1, 0>>             \* sin(1.5707963705062866)
      [] x = <<1, 1>>             -> <<15255479, -24>>    \* sin(2.0)
      [] x = <<13176795, -22>>    -> <<-6151831, -46>>    \* sin(3.1415927410125732)
      [] x = <<5, 0>>             -> <<-1005505, -20>>    \* sin(5.0)
      [] x = <<5, 1>>             -> <<-1140895, -21>>    \* sin(10.0)
      [] x = <<8235497, -19>>     -> <<-11884093, -44>>   \* sin(15.707963943481445)
      [] x = <<5, 2>>             -> <<1914585, -21>>     \* sin(20.0)
      [] x = <<8235497, -18>>     -> <<11884093, -43>>    \* sin(31.41592788696289)
      [] x = <<25, 2>>            -> <<-4247703, -23>>    \* sin(100.0)

Cos(x) ==
    CASE x = <<0, 0>>             -> <<1, 0>>             \* cos(0.0)
      [] x = <<8947849, -29>>     -> <<8387443, -23>>     \* cos(0.01666666753590107)
      [] x = <<11184811, -26>>    -> <<8272369, -23>>     \* cos(0.1666666716337204)
      [] x = <<1, -1>>            -> <<230053, -18>>      \* cos(0.5)
      [] x = <<1, 0>>             -> <<141637, -18>>      \* cos(1.0)
      [] x = <<13176795, -23>>    -> <<-6151831, -47>>    \* cos(1.5707963705062866)
      [] x = <<1, 1>>             -> <<-13963571, -25>>   \* cos(2.0)
      [] x = <<13176795, -22>>    -> <<-1, 0>>            \* cos(3.1415927410125732)
      [] x = <<5, 0>>             -> <<2379531, -23>>     \* cos(5.0)
      [] x = <<5, 1>>             -> <<-3519321, -22>>    \* cos(10.0)
      [] x = <<8235497, -19>>     -> <<-1, 0>>            \* cos(15.707963943481445)
      [] x = <<5, 2>>             -> <<6846481, -24>>     \* cos(20.0)
      [] x = <<8235497, -18>>     -> <<1, 0>>             \* cos(31.41592788696289)
      [] x = <<25, 2>>            -> <<7233655, -23>>     \* cos(100.0)

-----------------------------------------------------------------------------
(* The Time resource. *)

\* Values of Time::absolute_real_time_seconds() (f64), in increasing order:
\* 0.0, 1/60, 0.5, 1.0, the f64 nearest pi/2, 2.0, the f64 nearest pi, 10.0.
TimeSamples ==
    << <<0, 0, 0>>,
       <<8947848, 286331153, -58>>,
       <<8388608, 0, -53>>,
       <<8388608, 0, -52>>,
       <<13176794, 340012312, -52>>,
       <<8388608, 0, -51>>,
       <<13176794, 340012312, -51>>,
       <<10485760, 0, -49>> >>

\* let seconds = time.absolute_real_time_seconds() as f32;
Seconds(t) == F64ToF32(TimeSamples[t])

-----------------------------------------------------------------------------
(* Transform.  The scale is never touched by the program and is left out;   *)
(* a rotation is kept as the term that produced it.                         *)

Vec3(x, y, z) == <<x, y, z>>

Origin == Vec3(F(0), F(0), F(0))

\* The rotation of Transform::default().
IdentityRotation == <<"identity">>

\* The rotation by PI about the named axis.
AxisPiRotation(axis) == <<"axis_angle_pi", axis>>

TransformDefault == [translation |-> Origin, rotation |-> IdentityRotation]

SetTranslationXYZ(transform, x, y, z) == [transform EXCEPT !.translation = Vec3(x, y, z)]

SetRotationXAxis(transform) == [transform EXCEPT !.rotation = AxisPiRotation("x")]

\* prepend_rotation_y_axis(PI): PI about y, composed before the current rotation.
PrependRotationYAxis(transform) ==
    [transform EXCEPT !.rotation =
        IF transform.rotation = IdentityRotation
        THEN AxisPiRotation("y")
        ELSE <<"composed", AxisPiRotation("y"), @>>]

\* face_towards(Vector3::new(0.0, 0.0, 0.0), up): the rotation is a function
\* of translation - target (the target is the origin) and of up.
FaceTowards(transform, up) ==
    [transform EXCEPT !.rotation =
        <<"face_towards", transform.translation, up>>]

-----------------------------------------------------------------------------
(* Dense storages.  The components of the entities 1, 2, 3, ... are kept in *)
(* the order the entities were created, in pages: one page of n entries for *)
(* each pass of the outer grid loop, then one page for what on_start        *)
(* creates after the grid.                                                  *)

Page(e) == IF e <= n * n THEN (e - 1) \div n + 1 ELSE n + 1

Slot(e) == IF e <= n * n THEN ((e - 1) % n) + 1 ELSE e - n * n

\* The entities that have a component in the storage st.
Ids(st) == IF st = <<>> THEN {} ELSE 1 .. (n * (Len(st) - 1) + Len(st[Len(st)]))

\* The component of entity e, and the storage with it replaced by v.
Get(st, e) == st[Page(e)][Slot(e)]

Put(st, e, v) == [st EXCEPT ![Page(e)][Slot(e)] = v]

-----------------------------------------------------------------------------
(* Example::on_start. *)

Systems == {"move_lights_system", "move_camera_system"}

\* GridTransform with the row index used for both coordinates.
GridTransform_SameIndex(i, j) ==
    SetRotationXAxis(
        SetTranslationXYZ(TransformDefault,
                          FMul(F2_5, I32ToF32(i - n \div 2)),
                          FMul(F2_5, I32ToF32(i - n \div 2)),
                          F(0)))

\* GridTransform centred on (n + 1) / 2 instead of n / 2.
GridTransform_Centre(i, j) ==
    SetRotationXAxis(
        SetTranslationXYZ(TransformDefault,
                          FMul(F2_5, I32ToF32(i - (n + 1) \div 2)),
                          FMul(F2_5, I32ToF32(j - (n + 1) \div 2)),
                          F(0)))

\* pos of the grid entity (i, j).
GridTransform(i, j) ==
    SetRotationXAxis(
        SetTranslationXYZ(TransformDefault,
                          FMul(F2_5, I32ToF32(i - n \div 2)),
                          FMul(F2_5, I32ToF32(j - n \div 2)),
                          F(0)))

Light1Transform == SetTranslationXYZ(TransformDefault, F(10), F(0), F(-3))

Light2Transform == SetTranslationXYZ(TransformDefault, F(-10), F(0), F(-3))

CameraTransform ==
    PrependRotationYAxis(SetTranslationXYZ(TransformDefault, F(0), F(0), F(-12)))

Light1Color == [color |-> "Red"]

\* Light2Color with the tag of the first light.
Light2Color_Red == [color |-> "Red"]

Light2Color == [color |-> "Green"]

PointLight(r, g, b) == [intensity |-> F(10), color |-> Vec3(F(r), F(g), F(b))]

\* The two lights and the camera are created after the n * n grid entities.
Light1Entity == n * n + 1

Light2Entity == n * n + 2

CameraEntity == n * n + 3

\* The grid loops create the entities in the order of i, then j, in a world
\* that holds no entity yet: pass i of the outer loop fills page i + 1.
GridTransforms == [i \in 1 .. n |-> [j \in 1 .. n |-> GridTransform(i - 1, j - 1)]]

OnStart ==
    /\ state = "Created"
    /\ state' = "Running"
    /\ entities' = 1 .. CameraEntity
    /\ transforms' = GridTransforms \o << <<Light1Transform, Light2Transform, CameraTransform>> >>
    /\ meshes' = [i \in 1 .. n |-> [j \in 1 .. n |-> "cone"]]
    /\ materials' = [i \in 1 .. n |-> [j \in 1 .. n |-> (i - 1) * n + j]]
    /\ lights' = (Light1Entity :> PointLight(1, 0, 0)) @@ (Light2Entity :> PointLight(0, 1, 0))
    /\ light_colors' = (Light1Entity :> Light1Color) @@ (Light2Entity :> Light2Color)
    /\ cameras' = (CameraEntity :> "standard_3d")
    /\ UNCHANGED <<n, time, ran, visited, frame_start>>

-----------------------------------------------------------------------------
(* The two systems. *)

\* (&a, &mut b).join(): the entities that have both components.
Join(a, b) == {e \in DOMAIN a : e \in Ids(b)}

Min(S) == CHOOSE x \in S : \A y \in S : x <= y

\* MoveLight without the factor 10.0 on seconds.
MoveLight_NoRate(light_color, transform, seconds) ==
    LET movement_y == FMul(FNeg(Sin(seconds)), F(100))
        movement_x == FMul(Cos(seconds), F(100))
    IN  CASE light_color.color = "Red" ->
               SetTranslationXYZ(transform, movement_x, movement_y, F(-3))
          [] light_color.color = "Green" ->
               SetTranslationXYZ(transform, movement_y, movement_x, F(-3))
          [] OTHER -> transform

\* MoveLight with the Green arm a copy of the Red one.
MoveLight_GreenLikeRed(light_color, transform, seconds) ==
    LET movement_y == FMul(FNeg(Sin(FMul(seconds, F(10)))), F(100))
        movement_x == FMul(Cos(FMul(seconds, F(10))), F(100))
    IN  CASE light_color.color = "Red" ->
               SetTranslationXYZ(transform, movement_x, movement_y, F(-3))
          [] light_color.color = "Green" ->
               SetTranslationXYZ(transform, movement_x, movement_y, F(-3))
          [] OTHER -> transform

\* The body of the loop of MoveLightsSystem::run for one joined entity.
MoveLight(light_color, transform, seconds) ==
    LET movement_y == FMul(FNeg(Sin(FMul(seconds, F(10)))), F(100))
        movement_x == FMul(Cos(FMul(seconds, F(10))), F(100))
    IN  CASE light_color.color = "Red" ->
               SetTranslationXYZ(transform, movement_x, movement_y, F(-3))
          [] light_color.color = "Green" ->
               SetTranslationXYZ(transform, movement_y, movement_x, F(-3))
          [] OTHER -> transform

\* MoveCamera with the sign of x lost.
MoveCamera_SignFlip(transform, seconds) ==
    FaceTowards(
        SetTranslationXYZ(transform,
                          FMul(F(8), Sin(seconds)),
                          FMul(F(8), Cos(seconds)),
                          F(-5)),
        Vec3(F(0), F(0), F(-1)))

\* MoveCamera turning the camera by a relative rotation (as on_start does)
\* instead of face_towards.
MoveCamera_Prepend(transform, seconds) ==
    PrependRotationYAxis(
        SetTranslationXYZ(transform,
                          FMul(F(-8), Sin(seconds)),
                          FMul(F(8), Cos(seconds)),
                          F(-5)))

\* The body of the loop of MoveCameraSystem::run for one joined entity.
MoveCamera(transform, seconds) ==
    FaceTowards(
        SetTranslationXYZ(transform,
                          FMul(F(-8), Sin(seconds)),
                          FMul(F(8), Cos(seconds)),
                          F(-5)),
        Vec3(F(0), F(0), F(-1)))

\* MoveLightsSystem::run over the storage tr: the join visits the entities
\* of todo in increasing id.
RECURSIVE RunLights(_, _, _)
RunLights(tr, todo, t) ==
    IF todo = {} THEN tr
    ELSE LET e == Min(todo)
         IN  RunLights(Put(tr, e, MoveLight(light_colors[e], Get(tr, e), Seconds(t))),
                       todo \ {e}, t)

RECURSIVE RunCamera(_, _, _)
RunCamera(tr, todo, t) ==
    IF todo = {} THEN tr
    ELSE LET e == Min(todo)
         IN  RunCamera(Put(tr, e, MoveCamera(Get(tr, e), Seconds(t))),
                       todo \ {e}, t)

LightJoin == Join(light_colors, transforms)

\* The camera system joining over the Light storage.
CameraJoin_Lights == Join(lights, transforms)

\* The camera system joining over the Transform storage alone.
CameraJoin_All == Ids(transforms)

CameraJoin == Join(cameras, transforms)

\* AdvanceFrame without waiting for on_start.
AdvanceFrame_BeforeStart ==
    /\ time = 0 \/ ran = Systems
    /\ \E t \in 1 .. NumTimes :
         /\ t >= time
         /\ time' = t
    /\ ran' = {}
    /\ visited' = [s \in Systems |-> {}]
    /\ frame_start' = transforms
    /\ UNCHANGED <<state, n, entities, transforms, meshes, materials, lights,
                   light_colors, cameras>>

\* One frame of Application::run: the clock advances (it never goes back),
\* then the dispatcher runs every system once.
AdvanceFrame ==
    /\ state = "Running"
    /\ time = 0 \/ ran = Systems
    /\ \E t \in 1 .. NumTimes :
         /\ t >= time
         /\ time' = t
    /\ ran' = {}
    /\ visited' = [s \in Systems |-> {}]
    /\ frame_start' = transforms
    /\ UNCHANGED <<state, n, entities, transforms, meshes, materials, lights,
                   light_colors, cameras>>

MoveLightsSystem_run ==
    /\ state = "Running"
    /\ time >= 1
    /\ "move_lights_system" \notin ran
    /\ visited["move_lights_system"] = {}
    /\ transforms' = RunLights(transforms, LightJoin, time)
    /\ visited' = [visited EXCEPT !["move_lights_system"] = LightJoin]
    /\ ran' = ran \cup {"move_lights_system"}
    /\ UNCHANGED <<state, n, entities, meshes, materials, lights, light_colors,
                   cameras, time, frame_start>>

MoveCameraSystem_run ==
    /\ state = "Running"
    /\ time >= 1
    /\ "move_camera_system" \notin ran
    /\ visited["move_camera_system"] = {}
    /\ transforms' = RunCamera(transforms, CameraJoin, time)
    /\ visited' = [visited EXCEPT !["move_camera_system"] = CameraJoin]
    /\ ran' = ran \cup {"move_camera_system"}
    /\ UNCHANGED <<state, n, entities, meshes, materials, lights, light_colors,
                   cameras, time, frame_start>>

GridSizes == (0 .. MaxN) \cup {N}

Init ==
    /\ state = "Created"
    /\ n \in GridSizes
    /\ entities = {}
    /\ transforms = <<>>
    /\ meshes = <<>>
    /\ materials = <<>>
    /\ lights = <<>>
    /\ light_colors = <<>>
    /\ cameras = <<>>
    /\ time = 0
    /\ ran = {}
    /\ visited = [s \in Systems |-> {}]
    /\ frame_start = <<>>

Next ==
    \/ OnStart
    \/ AdvanceFrame
    \/ MoveLightsSystem_run
    \/ MoveCameraSystem_run

Spec == Init /\ [][Next]_vars

-----------------------------------------------------------------------------
(* The setup alone, over a wider range of grid sizes. *)

InitSetup ==
    /\ state = "Created"
    /\ n \in (0 .. MaxSetupN) \cup {N}
    /\ entities = {}
    /\ transforms = <<>>
    /\ meshes = <<>>
    /\ materials = <<>>
    /\ lights = <<>>
    /\ light_colors = <<>>
    /\ cameras = <<>>
    /\ time = 0
    /\ ran = {}
    /\ visited = [s \in Systems |-> {}]
    /\ frame_start = <<>>

SpecSetup == InitSetup /\ [][OnStart]_vars

-----------------------------------------------------------------------------
(* The same program with the two systems' loops interleaved: each step is   *)
(* one iteration of one system's loop, over any entity of its join not yet  *)
(* visited in the frame, in any order.                                      *)

MoveLightsSystem_step(e) ==
    /\ state = "Running"
    /\ time >= 1
    /\ "move_lights_system" \notin ran
    /\ e \in LightJoin \ visited["move_lights_system"]
    /\ transforms' = Put(transforms, e, MoveLight(light_colors[e], Get(transforms, e), Seconds(time)))
    /\ visited' = [visited EXCEPT !["move_lights_system"] = @ \cup {e}]
    /\ ran' = IF visited'["move_lights_system"] = LightJoin
              THEN ran \cup {"move_lights_system"} ELSE ran
    /\ UNCHANGED <<state, n, entities, meshes, materials, lights, light_colors,
                   cameras, time, frame_start>>

MoveCameraSystem_step(e) ==
    /\ state = "Running"
    /\ time >= 1
    /\ "move_camera_system" \notin ran
    /\ e \in CameraJoin \ visited["move_camera_system"]
    /\ transforms' = Put(transforms, e, MoveCamera(Get(transforms, e), Seconds(time)))
    /\ visited' = [visited EXCEPT !["move_camera_system"] = @ \cup {e}]
    /\ ran' = IF visited'["move_camera_system"] = CameraJoin
              THEN ran \cup {"move_camera_system"} ELSE ran
    /\ UNCHANGED <<state, n, entities, meshes, materials, lights, light_colors,
                   cameras, time, frame_start>>

NextRace ==
    \/ OnStart
    \/ AdvanceFrame
    \/ \E e \in LightJoin : MoveLightsSystem_step(e)
    \/ \E e \in CameraJoin : MoveCameraSystem_step(e)

SpecRace == Init /\ [][NextRace]_vars

-----------------------------------------------------------------------------
(* Vocabulary of the properties. *)

\* The grid entities are the entities that carry a mesh.
GridEntities == Ids(meshes)

Translation(e) == Get(transforms, e).translation

GridPositions == {Translation(e) : e \in GridEntities}

\* The exact value 2.5 * k as an f32.
Lattice(k) == Norm(5 * k, -1)

\* a <= b, for values whose exponents are close enough to align in 32 bits.
FLe(a, b) ==
    LET e0 == IF a[2] < b[2] THEN a[2] ELSE b[2]
    IN  a[1] * Pow2(a[2] - e0) <= b[1] * Pow2(b[2] - e0)

NegVec(p) == Vec3(FNeg(p[1]), FNeg(p[2]), FNeg(p[3]))

\* C1: once on_start has run, for the grid size n there are exactly n*n grid
\* entities, their positions are exactly the n*n points
\* (2.5*(i - n div 2), 2.5*(j - n div 2), 0) for (i, j) in [0,n) x [0,n), one
\* entity per point and no two entities at the same point; none for n = 0,
\* and 40401 for the program's n = 201.
C1_GridPopulation ==
    state = "Running" =>
        /\ Cardinality(GridEntities) = n * n
        /\ GridPositions =
             {Vec3(Lattice(i - n \div 2), Lattice(j - n \div 2), F(0)) :
                 i \in 0 .. (n - 1), j \in 0 .. (n - 1)}
        /\ Cardinality(GridPositions) = Cardinality(GridEntities)
        /\ (n = 0 => GridEntities = {})
        /\ (n = 201 => Cardinality(GridEntities) = 40401)

C1_Witness ==
    /\ state = "Running"
    /\ n = N
    /\ Cardinality(GridEntities) = 40401
    /\ Cardinality(GridPositions) = 40401

\* C2: for n = 201 the grid positions are the full lattice X x Y x {0} with
\* X = Y = {2.5*k : k in -100..100} (spacing 2.5), the lattice is symmetric
\* about the origin, and the least and greatest X and Y are -250 and 250.
C2_GridLattice ==
    (state = "Running" /\ n = 201) =>
        LET P  == GridPositions
            Xs == {p[1] : p \in P}
            Ys == {p[2] : p \in P}
            L  == {Lattice(k) : k \in -100 .. 100}
        IN  /\ Xs = L
            /\ Ys = L
            /\ P = {Vec3(x, y, F(0)) : x \in Xs, y \in Ys}
            /\ \A p \in P : NegVec(p) \in P
            /\ \A x \in Xs : FLe(F(-250), x) /\ FLe(x, F(250))
            /\ F(-250) \in Xs /\ F(250) \in Xs
            /\ \A y \in Ys : FLe(F(-250), y) /\ FLe(y, F(250))
            /\ F(-250) \in Ys /\ F(250) \in Ys

C2_Witness ==
    /\ state = "Running"
    /\ n = 201
    /\ Vec3(F(-250), F(250), F(0)) \in GridPositions
    /\ Vec3(F(2), F(0), F(0)) \notin GridPositions
    /\ Vec3(Lattice(1), F(0), F(0)) \in GridPositions

\* The entity tagged with the given LightColor.
Tagged(c) == {e \in DOMAIN light_colors : light_colors[e].color = c}

RedLight == CHOOSE e \in Tagged("Red") : TRUE

GreenLight == CHOOSE e \in Tagged("Green") : TRUE

TheCamera == CHOOSE e \in DOMAIN cameras : TRUE

\* C3: in every state after the setup, whatever updates have run, exactly one
\* entity is tagged Red and exactly one Green, no entity is tagged None, and
\* no tagged entity is the camera or a grid entity.
C3_LightTags ==
    state = "Running" =>
        /\ Cardinality(Tagged("Red")) = 1
        /\ Cardinality(Tagged("Green")) = 1
        /\ Tagged("None") = {}
        /\ \A e \in DOMAIN light_colors :
              /\ e \in entities
              /\ e \notin DOMAIN cameras
              /\ e \notin GridEntities
        /\ Cardinality(DOMAIN cameras) = 1

C3_Witness ==
    /\ state = "Running"
    /\ ran = Systems
    /\ time = 2
    /\ n = 2
    /\ Tagged("Red") = {5}
    /\ Tagged("Green") = {6}

\* A step that is a Light Motion Update, and one that is a Camera Motion Update.
LightUpdateStep == "move_lights_system" \in ran' /\ "move_lights_system" \notin ran

CameraUpdateStep == "move_camera_system" \in ran' /\ "move_camera_system" \notin ran

\* C4: a Light Motion Update leaves the Transform of every entity without a
\* LightColor unchanged, a Camera Motion Update leaves the Transform of every
\* entity without a Camera unchanged, and no step after the setup changes the
\* Transform of a grid entity.
C4_Frame ==
    [][ /\ LightUpdateStep =>
             \A e \in Ids(transforms) :
                 e \notin DOMAIN light_colors => Get(transforms', e) = Get(transforms, e)
        /\ CameraUpdateStep =>
             \A e \in Ids(transforms) :
                 e \notin DOMAIN cameras => Get(transforms', e) = Get(transforms, e)
        /\ state = "Running" =>
             \A e \in GridEntities : Get(transforms', e) = Get(transforms, e)
      ]_vars

C4_Witness ==
    /\ state = "Running"
    /\ ran = Systems
    /\ n = 3
    /\ Translation(RedLight) # Light1Transform.translation
    /\ Translation(TheCamera) # CameraTransform.translation
    /\ Translation(1) = Vec3(Lattice(-1), Lattice(-1), F(0))

\* seconds * 10.0 and v * 100.0, written out on the significands.
Times10(s) == RoundF32(5 * s[1], s[2] + 1)

Times100(v) == RoundF32(25 * v[1], v[2] + 2)

\* C5: after a Light Motion Update at time T the Red light is at
\* (cos(10T)*100, -sin(10T)*100, -3) and the Green light at
\* (-sin(10T)*100, cos(10T)*100, -3), in the program's f32 arithmetic; at
\* T = 0 they are at (100, 0, -3) and (0, 100, -3).
C5_LightOrbit ==
    (state = "Running" /\ "move_lights_system" \in ran) =>
        LET T == Seconds(time)
            c == Times100(Cos(Times10(T)))
            s == Times100(FNeg(Sin(Times10(T))))
        IN  /\ Translation(RedLight) = Vec3(c, s, F(-3))
            /\ Translation(GreenLight) = Vec3(s, c, F(-3))
            /\ TimeSamples[time] = <<0, 0, 0>> =>
                  /\ Translation(RedLight) = Vec3(F(100), F(0), F(-3))
                  /\ Translation(GreenLight) = Vec3(F(0), F(100), F(-3))

\* T = 1/60: cos(0.16666667)*100 = 98.61432..., -sin(0.16666667)*100 = -16.589613...
C5_Witness ==
    /\ state = "Running"
    /\ "move_lights_system" \in ran
    /\ time = 2
    /\ FLe(F(98), Translation(RedLight)[1]) /\ FLe(Translation(RedLight)[1], F(99))
    /\ FLe(F(-17), Translation(RedLight)[2]) /\ FLe(Translation(RedLight)[2], F(-16))
    /\ Translation(GreenLight)[1] = Translation(RedLight)[2]

\* The clock sample that is the f64 nearest pi/2.
HalfPi == <<13176794, 340012312, -52>>

CameraFormula ==
    LET T == Seconds(time)
    IN  Translation(TheCamera) =
            Vec3(FNeg(RoundF32(8 * Sin(T)[1], Sin(T)[2])),
                 RoundF32(8 * Cos(T)[1], Cos(T)[2]),
                 F(-5))

\* C6 as stated: after a Camera Motion Update at time T the camera is at
\* (-8*sin(T), 8*cos(T), -5); at T = 0 at (0, 8, -5) and at T = pi/2 at
\* exactly (-8, 0, -5).
C6_AsStated ==
    (state = "Running" /\ "move_camera_system" \in ran) =>
        /\ CameraFormula
        /\ TimeSamples[time] = <<0, 0, 0>> =>
              Translation(TheCamera) = Vec3(F(0), F(8), F(-5))
        /\ TimeSamples[time] = HalfPi =>
              Translation(TheCamera) = Vec3(F(-8), F(0), F(-5))

\* C6 amended: as above, but at T = pi/2 the camera is at (-8, y, -5) where
\* y = 8 * cos(T as f32) = -6151831 * 2^-44 (about -3.5e-7): not 0, and
\* within 2^-20 of it.
C6_CameraOrbit ==
    (state = "Running" /\ "move_camera_system" \in ran) =>
        /\ CameraFormula
        /\ TimeSamples[time] = <<0, 0, 0>> =>
              Translation(TheCamera) = Vec3(F(0), F(8), F(-5))
        /\ TimeSamples[time] = HalfPi =>
              /\ Translation(TheCamera) = Vec3(F(-8), <<-6151831, -44>>, F(-5))
              /\ Translation(TheCamera)[2] # F(0)
              /\ FLe(<<-1, -20>>, Translation(TheCamera)[2])
              /\ FLe(Translation(TheCamera)[2], <<1, -20>>)

C6_Witness ==
    /\ state = "Running"
    /\ "move_camera_system" \in ran
    /\ TimeSamples[time] = HalfPi
    /\ Translation(TheCamera)[1] = F(-8)
    /\ Translation(TheCamera)[2] # F(0)

\* C7: from every state after the setup and for every time T, a second
\* Light (Camera) Motion Update at T changes no Transform, and the Transforms
\* an update gives the lights and the camera are those it gives from the
\* setup values: they depend on T alone.
C7_Idempotent ==
    state = "Running" =>
        \A t \in 1 .. NumTimes :
            LET l1 == RunLights(transforms, LightJoin, t)
                c1 == RunCamera(transforms, CameraJoin, t)
            IN  /\ RunLights(l1, LightJoin, t) = l1
                /\ RunCamera(c1, CameraJoin, t) = c1
                /\ Get(l1, RedLight) = MoveLight(Light1Color, Light1Transform, Seconds(t))
                /\ Get(l1, GreenLight) = MoveLight(Light2Color, Light2Transform, Seconds(t))
                /\ Get(c1, TheCamera) = MoveCamera(CameraTransform, Seconds(t))

\* Both systems have run at 1/60 in an earlier frame and at 0.5 in this one.
C7_Witness ==
    /\ state = "Running"
    /\ ran = Systems
    /\ time = 3
    /\ frame_start # <<>>
    /\ Get(frame_start, TheCamera).rotation[1] = "face_towards"
    /\ Get(frame_start, TheCamera) # Get(transforms, TheCamera)
    /\ RunLights(transforms, LightJoin, time) = transforms
    /\ RunCamera(transforms, CameraJoin, time) = transforms

\* C8: the entities the Light Motion Update writes and those the Camera
\* Motion Update writes are disjoint, and when a frame whose per-entity
\* writes were interleaved in any order completes, the Transforms are those
\* of running the two updates one after the other, in either order, from
\* the Transforms the frame began with.
C8_NoRace ==
    state = "Running" =>
        /\ LightJoin \cap CameraJoin = {}
        /\ (time >= 1 /\ ran = Systems) =>
              /\ transforms =
                    RunCamera(RunLights(frame_start, LightJoin, time), CameraJoin, time)
              /\ transforms =
                    RunLights(RunCamera(frame_start, CameraJoin, time), LightJoin, time)

\* The camera's write came between the writes of the two lights.
C8_Witness ==
    /\ state = "Running"
    /\ time = 2
    /\ ran = {"move_camera_system"}
    /\ visited["move_lights_system"] = {GreenLight}
    /\ Get(transforms, GreenLight) # Get(frame_start, GreenLight)
    /\ Get(transforms, RedLight) = Get(frame_start, RedLight)
    /\ Get(transforms, TheCamera) # Get(frame_start, TheCamera)

C9_State ==
    /\ state = "Created" =>
          /\ entities = {}
          /\ transforms = <<>>
          /\ time = 0
          /\ ran = {}
    /\ state = "Running" =>
          /\ Cardinality(entities) = n * n + 3
          /\ (n = 201 => Cardinality(entities) = 40404)
          /\ Ids(transforms) = entities
          /\ GridEntities = 1 .. n * n
          /\ DOMAIN lights = {n * n + 1, n * n + 2}
          /\ DOMAIN light_colors = {n * n + 1, n * n + 2}
          /\ DOMAIN cameras = {n * n + 3}

\* C9: the setup (the grid first, then the two lights, then the camera) runs
\* once, before any update; no update runs and no clock sample is taken
\* before it has completed; after it no entity is created or destroyed: the
\* world holds n*n + 3 entities (40404 for n = 201) in every later state.
C9_Lifecycle ==
    [][ /\ C9_State
        /\ C9_State'
        /\ state = "Running" =>
              /\ state' = "Running"
              /\ entities' = entities
              /\ Ids(transforms') = Ids(transforms)
              /\ Ids(meshes') = Ids(meshes)
              /\ DOMAIN lights' = DOMAIN lights
              /\ DOMAIN light_colors' = DOMAIN light_colors
              /\ DOMAIN cameras' = DOMAIN cameras
        /\ (LightUpdateStep \/ CameraUpdateStep \/ time' # time) => state = "Running"
      ]_vars

C9_Witness ==
    /\ state = "Running"
    /\ n = N
    /\ time = NumTimes
    /\ ran = Systems
    /\ Cardinality(entities) = 40404

Mirror ==
    /\ Translation(GreenLight)[1] = Translation(RedLight)[2]
    /\ Translation(GreenLight)[2] = Translation(RedLight)[1]
    /\ Translation(GreenLight)[3] = F(-3)
    /\ Translation(RedLight)[3] = F(-3)

SetupPositions ==
    /\ Translation(RedLight) = Vec3(F(10), F(0), F(-3))
    /\ Translation(GreenLight) = Vec3(F(-10), F(0), F(-3))

C10_State ==
    state = "Running" =>
        /\ Translation(RedLight)[3] = F(-3)
        /\ Translation(GreenLight)[3] = F(-3)
        /\ "move_lights_system" \in ran => Mirror
        /\ time = 0 => SetupPositions
        /\ SetupPositions => ~Mirror
        /\ Mirror \/ SetupPositions

\* C10: after a completed Light Motion Update the Green light's position is
\* the Red light's with x and y swapped, and it stays so; the setup positions
\* (10, 0, -3) and (-10, 0, -3) are not such a pair and are gone with the
\* first update; z = -3 for both lights in every state after the setup.
C10_Mirror ==
    [][ /\ C10_State
        /\ C10_State'
        /\ (state = "Running" /\ Mirror) => Mirror'
        /\ LightUpdateStep => ~SetupPositions'
      ]_vars

C10_Witness ==
    /\ state = "Running"
    /\ time = 4
    /\ "move_lights_system" \in ran
    /\ Mirror
    /\ Translation(RedLight)[1] # Translation(RedLight)[2]

=============================================================================
